---- MODULE Spec2Model ----
(***************************************************************************)
(* Chunked file ingestion core: the upload routes, ChunkedUploadManager,   *)
(* ProcessingPipelineManager, ErrorRecoveryManager and the                 *)
(* UploadProgressManager (WebSocket push channel).                         *)
(*                                                                         *)
(* Every request handler runs to completion between two macrotasks: the    *)
(* only awaits it meets before it has finished touching shared state are   *)
(* resolved promises (getSession) or precede its first access (fs.mkdir in *)
(* initializeChunkedUpload), so one handler is one action.  Timers         *)
(* (setTimeout) are separate actions that may fire at any later moment.    *)
(***************************************************************************)
EXTENDS Integers, Sequences, FiniteSets, TLC

\* ------------------------------------------------------------------ bounds
MaxFileChunks == 2      \* file sizes span 0 .. MaxFileChunks chunks
MaxCompleted == 2       \* cap on session.completedChunks (direct bus calls)
MaxSessionTimers == 1   \* cap on pending 30 s clean-up timers of one fileId
MaxPipelineTimers == 1  \* cap on pending 60 s clean-up timers of one fileId
MaxRetryTimers == 2     \* cap on pending retry timers of one fileId
MaxAttempt == 8         \* attempts handed to calculateBackoffDelay
JitterSteps == 16       \* Math.random() is drawn from k / JitterSteps

Users == {"A", "B"}
FileIds == {"f1", "f2"}
Conns == {"c1", "c2"}
None == "-"

\* ------------------------------------------------- rationals and JS numbers
\* A JS number is [n, d]: n/d for d > 0, NaN for 0/0, +Infinity for 1/0.
RECURSIVE GCD(_, _)
GCD(a, b) == IF b = 0 THEN a ELSE GCD(b, a % b)

Abs(x) == IF x < 0 THEN -x ELSE x

NaN == [n |-> 0, d |-> 0]
Infinity == [n |-> 1, d |-> 0]
Zero == [n |-> 0, d |-> 1]
One == [n |-> 1, d |-> 1]

\* the JS quotient n / d of two non-negative-denominator numbers
Rat(n, d) ==
  IF d = 0 THEN (IF n = 0 THEN NaN ELSE Infinity)
  ELSE LET g == GCD(Abs(n), d) IN
       IF g = 0 THEN Zero ELSE [n |-> n \div g, d |-> d \div g]

IsNaN(p) == p.d = 0 /\ p.n = 0

\* a <= b on JS numbers (false as soon as one side is NaN)
NumLeq(a, b) ==
  IF IsNaN(a) \/ IsNaN(b) THEN FALSE
  ELSE IF b.d = 0 THEN TRUE
  ELSE IF a.d = 0 THEN FALSE
  ELSE a.n * b.d <= b.n * a.d

\* Math.min(1, Math.max(0, progress))
Clamp01(p) ==
  IF IsNaN(p) THEN NaN
  ELSE IF p.d = 0 THEN One
  ELSE IF p.n < 0 THEN Zero
  ELSE IF p.n > p.d THEN One
  ELSE p

\* ------------------------------------------------------ program constants
chunkSize == 1048576
maxChunks == 1000
maxRetries == 3
baseDelay == 1000
maxDelay == 30000

VARIABLES
  clients,         \* UploadProgressManager.clients: userId -> set of sockets
  ws,              \* every socket: its authenticated user and readyState
  inbox,           \* what each socket has been sent
  uploadSessions,  \* UploadProgressManager.uploadSessions: fileId -> info
  sessionTimers,   \* pending 30 s clean-up timers of completeUpload
  pipelines,       \* ProcessingPipelineManager.pipelines
  pipelineTimers,  \* pending 60 s clean-up timers of completePipeline
  retryAttempts,   \* ErrorRecoveryManager.retryAttempts
  retryTimers,     \* pending setTimeout(executeRetry) timers
  disk,            \* chunk files of every tempDir and the assembled files
  hist,            \* per-fileId observations (history variable)
  last,            \* the operation of the last step, its result and events
  backoff          \* last evaluation of calculateBackoffDelay

vars == <<clients, ws, inbox, uploadSessions, sessionTimers, pipelines,
          pipelineTimers, retryAttempts, retryTimers, disk, hist, last, backoff>>

\* Math.ceil(a / b) for a >= 0, b > 0
CeilDiv(a, b) == (a + b - 1) \div b

\* the metadata initializeChunkedUpload hands to startUploadSession
Metadata(size) == [size |-> size, totalChunks |-> CeilDiv(size, chunkSize)]

\* ------------------------------------------------------------------ maps
\* A JS Map is a function whose domain is the set of keys present.
MapSet(m, k, v) == (k :> v) @@ m
MapDelete(m, k) == [x \in DOMAIN m \ {k} |-> m[x]]

\* The mutable program state as one value, so that a handler is the
\* composition of the methods it calls.  With it go what the operation has
\* published (events) and sent to each socket (sent) so far, in order, and
\* the sockets whose send() throws during the operation (throwing).
Cur ==
  [clients |-> clients, inbox |-> inbox, uploadSessions |-> uploadSessions,
   sessionTimers |-> sessionTimers, pipelines |-> pipelines,
   pipelineTimers |-> pipelineTimers,
   retryAttempts |-> retryAttempts, retryTimers |-> retryTimers,
   disk |-> disk, hist |-> hist, events |-> <<>>,
   sent |-> [c \in Conns |-> <<>>], throwing |-> {}]

\* ------------------------------------------------------- push channel
Tokens == {"tokA", "tokB", "forged", ""}

\* jwt.verify + the payload check: the user a token authenticates, or None
authenticateWebSocket(token) ==
  CASE token = "tokA" -> "A"
    [] token = "tokB" -> "B"
    [] OTHER -> None

\* verifyClient: the user put on the request, None when the client is refused.
\* verifyClient is an async function: what it hands the WebSocket server is a
\* promise, documented as a boolean.  A server that waits for the verdict
\* refuses the client or registers the socket under this user; a server that
\* tests the value handed back finds a promise, accepts every client and runs
\* handleConnection before req.user is set, which throws on req.user.id before
\* it touches this.clients.  WsConnect has both outcomes.
verifyClient(token) ==
  IF token = "" THEN None ELSE authenticateWebSocket(token)

Msg(type, fileId, owner, progress, stage, retryable) ==
  [type |-> type, fileId |-> fileId, owner |-> owner, progress |-> progress,
   stage |-> stage, retryable |-> retryable]

\* what a socket keeps of a message it was sent
Delivered(m) == [fileId |-> m.fileId, owner |-> m.owner]

\* the key under which handleConnection files a socket
ConnectionKey(userId) == userId

\* the sockets a message for userId is sent to
Recipients_AllUsers(st, userId) ==
  UNION {st.clients[u] : u \in DOMAIN st.clients}
Recipients(st, userId) == st.clients[userId]

\* ws.send(messageStr): the socket gets the message after those it was sent
Send_Prepend(log, message) == <<message>> \o log
Send(log, message) == Append(log, message)

\* the sockets deleted from the user's set after the forEach
DeadConnections_None(userClients, delivered) == {}
DeadConnections(userClients, delivered) == userClients \ delivered

broadcastToUser(st, userId, message) ==
  LET pub == [st EXCEPT !.events = Append(@, message)] IN
  IF userId \notin DOMAIN st.clients THEN pub
  ELSE
    LET userClients == Recipients(st, userId)
        open == {c \in userClients : ws[c].readyState = "OPEN"}
        delivered == open \ st.throwing
        deadConnections == DeadConnections(userClients, delivered)
    IN [pub EXCEPT
          !.inbox = [c \in Conns |->
                       IF c \in delivered THEN @[c] \cup {Delivered(message)}
                       ELSE @[c]],
          !.sent = [c \in Conns |->
                      IF c \in delivered THEN Send(@[c], message) ELSE @[c]],
          !.clients[userId] = @ \ deadConnections]

\* history of one fileId: the progress value of the last upload_progress
\* event published for its session, the 'retry' actions handleError has
\* returned for it since its last final failure, the chunks uploadChunk has
\* accepted for its session (index -> bytes), whether handleError has
\* returned a final failure for it since its session was created, and how
\* many complete requests its session has seen since its last chunk was
\* accepted and how many it has answered with success (0, 1, or 2 for two
\* and more), the tempDir the init response gave for its session, whether
\* completeUpload has set a 30 s timer for its session (timed) and whether
\* completePipeline has set a 60 s timer for its pipeline (pipeTimed)
NewHist ==
  [hasProgress |-> FALSE, lastProgress |-> Zero, retries |-> 0,
   accepted |-> <<>>, failed |-> FALSE, completes |-> 0, assembled |-> 0,
   tempDir |-> None, timed |-> FALSE, pipeTimed |-> FALSE]

\* session.chunks, session.stage, session.error, session.result and the time
\* stamps are written and never read by the server: they are left out of the
\* record.  session.retryable is "undefined" until handleUploadError sets it.
startUploadSession(st, fileId, userId, metadata) ==
  LET session == [userId |-> userId, status |-> "uploading", progress |-> Zero,
                  metadata |-> metadata, totalChunks |-> 0,
                  completedChunks |-> 0, retryable |-> "undefined"]
      st1 == [st EXCEPT !.uploadSessions = MapSet(@, fileId, session),
                        !.hist[fileId] = [NewHist EXCEPT
                                            !.retries = st.hist[fileId].retries,
                                            !.pipeTimed =
                                              st.hist[fileId].pipeTimed]]
  IN broadcastToUser(st1, userId,
       Msg("upload_started", fileId, userId, Zero, None, FALSE))

updateProgress(st, fileId, progress, stage) ==
  IF fileId \notin DOMAIN st.uploadSessions THEN st
  ELSE
    LET p == Clamp01(progress)
        st1 == [st EXCEPT !.uploadSessions[fileId].progress = p,
                          !.hist[fileId].hasProgress = TRUE,
                          !.hist[fileId].lastProgress = p]
    IN broadcastToUser(st1, st.uploadSessions[fileId].userId,
         Msg("upload_progress", fileId, st.uploadSessions[fileId].userId,
             p, stage, FALSE))

updateChunkProgress(st, fileId, chunkIndex, totalChunks, completed) ==
  IF fileId \notin DOMAIN st.uploadSessions THEN st
  ELSE
    LET s == st.uploadSessions[fileId]
        done == IF completed THEN s.completedChunks + 1 ELSE s.completedChunks
        st1 == [st EXCEPT
                  !.uploadSessions[fileId].totalChunks = totalChunks,
                  !.uploadSessions[fileId].completedChunks = done]
    IN updateProgress(st1, fileId, Rat(done, totalChunks), "uploading")

completeUpload(st, fileId) ==
  IF fileId \notin DOMAIN st.uploadSessions THEN st
  ELSE
    LET st1 == [st EXCEPT !.uploadSessions[fileId].status = "completed",
                          !.uploadSessions[fileId].progress = One,
                          !.sessionTimers[fileId] = @ + 1,
                          !.hist[fileId].timed = TRUE]
    IN broadcastToUser(st1, st.uploadSessions[fileId].userId,
         Msg("upload_completed", fileId, st.uploadSessions[fileId].userId,
             One, None, FALSE))

handleUploadError(st, fileId, retryable) ==
  IF fileId \notin DOMAIN st.uploadSessions THEN st
  ELSE
    LET st1 == [st EXCEPT !.uploadSessions[fileId].status = "error",
                          !.uploadSessions[fileId].retryable =
                             IF retryable THEN "true" ELSE "false"]
    IN broadcastToUser(st1, st.uploadSessions[fileId].userId,
         Msg("upload_error", fileId, st.uploadSessions[fileId].userId,
             Zero, None, retryable))


\* ------------------------------------------------- processing pipeline
\* The weights of this.stages in twentieths (0.05 = 1); a stage that is not
\* in the table weighs 0.1.
StageWeight(name) ==
  CASE name = "upload" -> 2
    [] name = "validation" -> 1
    [] name = "processing" -> 6
    [] name = "ocr" -> 4
    [] name = "stt" -> 3
    [] name = "embedding" -> 2
    [] name = "storage" -> 1
    [] name = "cleanup" -> 1
    [] OTHER -> 2

buildStageList(requiredStages) ==
  LET allStages == <<"upload", "validation", "processing">> \o requiredStages
                     \o <<"storage", "cleanup">>
  IN [i \in 1..Len(allStages) |->
        [name |-> allStages[i], weight |-> StageWeight(allStages[i]),
         status |-> "pending", progress |-> Zero]]

\* pipeline.stages.find(s => s.name === stageName): its index, 0 when absent
FindStage(pipeline, stageName) ==
  LET hits == {i \in 1..Len(pipeline.stages) :
                 pipeline.stages[i].name = stageName}
  IN IF hits = {} THEN 0 ELSE CHOOSE i \in hits : \A j \in hits : i <= j

RECURSIVE SumWeights(_, _, _)
\* the sum over stages[1..k] of weight (done = FALSE) or of the completed
\* share of the weight (done = TRUE), as a fraction [n, d] of twentieths
SumWeights(stages, k, done) ==
  IF k = 0 THEN Zero
  ELSE LET rest == SumWeights(stages, k - 1, done)
           stage == stages[k]
           part == IF ~done THEN [n |-> stage.weight, d |-> 1]
                   ELSE IF stage.status = "completed"
                        THEN [n |-> stage.weight, d |-> 1]
                   ELSE IF stage.status = "running"
                        THEN [n |-> stage.weight * stage.progress.n,
                              d |-> stage.progress.d]
                   ELSE Zero
       IN Rat(rest.n * part.d + part.n * rest.d, rest.d * part.d)

\* the value updateOverallProgress stores in pipeline.overallProgress
OverallProgress(stages) ==
  LET totalWeight == SumWeights(stages, Len(stages), FALSE)
      completedWeight == SumWeights(stages, Len(stages), TRUE)
  IN IF totalWeight.n > 0
     THEN Rat(completedWeight.n * totalWeight.d,
              completedWeight.d * totalWeight.n)
     ELSE Zero

\* pipeline.metadata, the time stamps, stageHistory, errors and warnings are
\* written and never read by a stage operation: they are left out.
initializePipeline(st, fileId, userId, requiredStages) ==
  LET pipeline == [userId |-> userId, stages |-> buildStageList(requiredStages),
                   currentStage |-> "upload", stageProgress |-> Zero,
                   overallProgress |-> Zero]
      st1 == [st EXCEPT !.pipelines = MapSet(@, fileId, pipeline),
                        !.hist[fileId].pipeTimed = FALSE]
  IN updateProgress(st1, fileId, Zero, "pipeline_started")

startStage(st, fileId, stageName) ==
  IF fileId \notin DOMAIN st.pipelines THEN st
  ELSE
    LET pipeline == st.pipelines[fileId]
        i == FindStage(pipeline, stageName)
    IN IF i = 0 THEN st
       ELSE
         LET stages == [pipeline.stages EXCEPT ![i].status = "running",
                                               ![i].progress = Zero]
             overall == OverallProgress(stages)
             st1 == [st EXCEPT !.pipelines[fileId] =
                       [pipeline EXCEPT !.stages = stages,
                                        !.currentStage = stageName,
                                        !.stageProgress = Zero,
                                        !.overallProgress = overall]]
         IN updateProgress(st1, fileId, overall, stageName)

updateStageProgress(st, fileId, stageName, progress) ==
  IF fileId \notin DOMAIN st.pipelines THEN st
  ELSE
    LET pipeline == st.pipelines[fileId]
        i == FindStage(pipeline, stageName)
    IN IF i = 0 \/ pipeline.stages[IF i = 0 THEN 1 ELSE i].status # "running"
       THEN st
       ELSE
         LET p == Clamp01(progress)
             stages == [pipeline.stages EXCEPT ![i].progress = p]
             overall == OverallProgress(stages)
             st1 == [st EXCEPT !.pipelines[fileId] =
                       [pipeline EXCEPT !.stages = stages,
                                        !.stageProgress = p,
                                        !.overallProgress = overall]]
         IN updateProgress(st1, fileId, overall, stageName)

completeStage(st, fileId, stageName) ==
  IF fileId \notin DOMAIN st.pipelines THEN st
  ELSE
    LET pipeline == st.pipelines[fileId]
        i == FindStage(pipeline, stageName)
    IN IF i = 0 THEN st
       ELSE
         LET stages == [pipeline.stages EXCEPT ![i].status = "completed",
                                               ![i].progress = One]
             overall == OverallProgress(stages)
             st1 == [st EXCEPT !.pipelines[fileId] =
                       [pipeline EXCEPT !.stages = stages,
                                        !.overallProgress = overall]]
         IN updateProgress(st1, fileId, overall, stageName)

\* handleStageError does not recompute overallProgress: it publishes the
\* value the previous stage operation left
handleStageError(st, fileId, stageName, recoverable) ==
  IF fileId \notin DOMAIN st.pipelines THEN st
  ELSE
    LET pipeline == st.pipelines[fileId]
        i == FindStage(pipeline, stageName)
    IN IF i = 0 THEN st
       ELSE
         LET st1 == [st EXCEPT !.pipelines[fileId].stages[i].status = "error"]
         IN updateProgress(st1, fileId, pipeline.overallProgress, stageName)

\* completePipeline is called by no code of the repository; it is a public
\* method of the manager.  Its setTimeout is the pending 60 s timer.
completePipeline(st, fileId) ==
  IF fileId \notin DOMAIN st.pipelines THEN st
  ELSE
    LET st1 == [st EXCEPT !.pipelines[fileId].overallProgress = One]
        st2 == completeUpload(st1, fileId)
    IN [st2 EXCEPT !.pipelineTimers[fileId] = @ + 1,
                   !.hist[fileId].pipeTimed = TRUE]


\* ------------------------------------------------------------- errors
ErrNotFound == "Upload session not found"
ErrBadIndex == "Invalid chunk index"
ErrHashMismatch == "Chunk i hash mismatch"
ErrTypeHas == "Cannot read properties of undefined (reading 'has')"
ErrTypeSize == "Cannot read properties of undefined (reading 'size')"
ErrPathType == "The path argument must be of type string. Received undefined"
ErrMissing == "Missing chunks: ..."
ErrSizeMismatch == "Assembled file size mismatch"
ErrTooLarge == "File too large. Maximum size: 1000MB"
ErrENOENT == "ENOENT: no such file or directory"
ErrNetwork == "Network timeout"
ErrPermission == "Permission denied"

\* String.prototype.toLowerCase, for the letters of the messages
UpperCase == "ABCDEFGHIJKLMNOPQRSTUVWXYZ"
LowerCase == "abcdefghijklmnopqrstuvwxyz"

Lower(c) ==
  IF \E i \in 1..Len(UpperCase) : SubSeq(UpperCase, i, i) = c
  THEN LET i == CHOOSE j \in 1..Len(UpperCase) : SubSeq(UpperCase, j, j) = c
       IN SubSeq(LowerCase, i, i)
  ELSE c

RECURSIVE toLowerCase(_)
toLowerCase(s) ==
  IF Len(s) = 0 THEN ""
  ELSE Lower(SubSeq(s, 1, 1)) \o toLowerCase(SubSeq(s, 2, Len(s)))

\* String.prototype.includes
includes(s, searchString) ==
  \E i \in 1..(Len(s) - Len(searchString) + 1) :
    SubSeq(s, i, i + Len(searchString) - 1) = searchString

\* the strings categorizeError and isRetryableError search the message for
Needles ==
  {"network", "timeout", "size", "limit", "format", "type", "permission",
   "access", "storage", "disk", "authentication", "auth",
   "unsupported file type", "file too large", "invalid file format",
   "permission denied", "authentication failed"}

\* messages of errors that do not come from the upload manager
ClassifyMessages ==
  {"Request Timeout", "Rate limit exceeded", "Invalid file format",
   "Unsupported codec", "Access denied", "Storage unavailable",
   "Disk quota exceeded", "IO error", "Authentication failed",
   "Connection reset", "Payload exceeds SIZE"}

Messages ==
  {ErrNotFound, ErrBadIndex, ErrHashMismatch, ErrTypeHas, ErrTypeSize,
   ErrPathType, ErrMissing, ErrSizeMismatch, ErrTooLarge, ErrENOENT,
   ErrNetwork, ErrPermission} \cup ClassifyMessages

\* those of the needles that error.message.toLowerCase() contains
Contained(message) ==
  LET lower == toLowerCase(message)
  IN {w \in Needles : includes(lower, w)}

\* the same, worked out once for every message of the model
ContainedIn == [message \in Messages |-> Contained(message)]

Includes(message) ==
  IF message \in Messages THEN ContainedIn[message] ELSE Contained(message)

\* what a manager method hands back: the state it leaves, whether it
\* returned (ok) or threw (error), and the value returned
Result(st, ok, error, ret) == [st |-> st, ok |-> ok, error |-> error, ret |-> ret]

NoRet ==
  [totalChunks |-> 0, received |-> {}, missing |-> {}, progress |-> Zero,
   action |-> None, attempt |-> 0, already |-> FALSE, size |-> 0,
   valid |-> FALSE, tempDir |-> None]

\* ------------------------------------------------ ChunkedUploadManager
NoHash == [bytes |-> None, len |-> 0]
Md5(chunkData) == [bytes |-> chunkData.bytes, len |-> chunkData.len]

\* path.join(UPLOADS_PATH, 'temp', 'chunks', userId): one directory a user
TempDir(userId) == userId

\* path.join(session.tempDir, `chunk_${chunkIndex}`)
ChunkPath(tempDir, chunkIndex) == <<tempDir, chunkIndex>>

\* metadata.size > this.chunkSize * this.maxChunks
TooLarge_AtLimit(size) == size >= chunkSize * maxChunks
TooLarge(size) == size > chunkSize * maxChunks

\* getSession: what uploadProgressManager.getSessionStatus(fileId) returns.
\* It is the push channel's record of the upload, the only session stored.
HasSession(st, fileId) == fileId \in DOMAIN st.uploadSessions
getSession_Built(st, fileId) ==
  LET s == st.uploadSessions[fileId]
  IN [s EXCEPT !.totalChunks = s.metadata.totalChunks]
       @@ [receivedChunks |-> {}, chunkHashes |-> <<>>,
           tempDir |-> TempDir(s.userId)]
getSession(st, fileId) == st.uploadSessions[fileId]

\* a property read that JS answers with undefined
Undefined(obj, key) == key \notin DOMAIN obj

initializeChunkedUpload(st, fileId, userId, size) ==
  LET tempDir == TempDir(userId)
      st1 == IF tempDir \in DOMAIN st.disk.chunks THEN st
             ELSE [st EXCEPT !.disk.chunks = MapSet(@, tempDir, <<>>)]
      totalChunks == CeilDiv(size, chunkSize)
  IN IF TooLarge(size)
     THEN Result(st1, FALSE, ErrTooLarge, NoRet)
     ELSE Result(startUploadSession(st1, fileId, userId, Metadata(size)),
                 TRUE, None, [NoRet EXCEPT !.totalChunks = totalChunks,
                                           !.tempDir = tempDir])

\* chunkIndex >= session.totalChunks || chunkIndex < 0
BadIndex_OffByOne(chunkIndex, totalChunks) ==
  chunkIndex > totalChunks \/ chunkIndex < 0
BadIndex(chunkIndex, totalChunks) ==
  chunkIndex >= totalChunks \/ chunkIndex < 0

uploadChunk(st, fileId, chunkIndex, chunkData, chunkHash) ==
  IF ~HasSession(st, fileId) THEN Result(st, FALSE, ErrNotFound, NoRet)
  ELSE
    LET session == getSession(st, fileId) IN
    IF BadIndex(chunkIndex, session.totalChunks)
    THEN Result(st, FALSE, ErrBadIndex, NoRet)
    ELSE IF Undefined(session, "receivedChunks")
    THEN Result(st, FALSE, ErrTypeHas, NoRet)
    ELSE IF chunkIndex \in session.receivedChunks
    THEN Result(st, TRUE, None, [NoRet EXCEPT !.already = TRUE])
    ELSE IF chunkHash.bytes # None /\ Md5(chunkData) # chunkHash
    THEN Result(st, FALSE, ErrHashMismatch, NoRet)
    ELSE IF Undefined(session, "tempDir")
    THEN Result(st, FALSE, ErrPathType, NoRet)
    ELSE
      LET received == session.receivedChunks \cup {chunkIndex}
          st1 == [st EXCEPT
                    !.disk.chunks[session.tempDir] =
                       MapSet(@, chunkIndex, chunkData),
                    !.uploadSessions[fileId].receivedChunks = received,
                    !.uploadSessions[fileId].chunkHashes =
                       MapSet(@, chunkIndex, Md5(chunkData))]
      IN Result(updateChunkProgress(st1, fileId, chunkIndex,
                                    session.totalChunks, TRUE),
                TRUE, None,
                [NoRet EXCEPT
                   !.progress = Rat(Cardinality(received), session.totalChunks),
                   !.received = received,
                   !.totalChunks = session.totalChunks])

\* cleanupChunks: every failure inside it is caught and logged
cleanupChunks(st, session) ==
  IF Undefined(session, "tempDir") THEN st
  ELSE IF session.tempDir \notin DOMAIN st.disk.chunks THEN st
  ELSE [st EXCEPT !.disk.chunks = MapDelete(@, session.tempDir)]

RECURSIVE AssembleLoop(_, _, _, _, _)
\* the for loop of assembleFile from chunk i on: the chunks read so far (out)
\* and the progress published; ok is FALSE when readFile throws
AssembleLoop(st, fileId, session, i, out) ==
  IF i >= session.totalChunks THEN [st |-> st, ok |-> TRUE, out |-> out]
  ELSE IF i \notin DOMAIN st.disk.chunks[session.tempDir]
  THEN [st |-> st, ok |-> FALSE, out |-> out]
  ELSE AssembleLoop(
         updateProgress(st, fileId, Rat(i + 1, session.totalChunks),
                        "assembling"),
         fileId, session, i + 1,
         Append(out, st.disk.chunks[session.tempDir][i]))

RECURSIVE SumLen(_)
SumLen(seq) == IF seq = <<>> THEN 0 ELSE Head(seq).len + SumLen(Tail(seq))

assembleFile(st, fileId, finalPath) ==
  IF ~HasSession(st, fileId) THEN Result(st, FALSE, ErrNotFound, NoRet)
  ELSE
    LET session == getSession(st, fileId) IN
    IF Undefined(session, "receivedChunks")
    THEN Result(st, FALSE, ErrTypeSize, NoRet)
    ELSE IF Cardinality(session.receivedChunks) # session.totalChunks
    THEN Result(st, FALSE, ErrMissing, NoRet)
    ELSE IF Undefined(session, "tempDir")
    THEN Result([st EXCEPT !.disk.files = MapSet(@, finalPath, <<>>)],
                FALSE, ErrPathType, NoRet)
    ELSE
      LET loop == AssembleLoop(st, fileId, session, 0, <<>>)
          written == [loop.st EXCEPT
                        !.disk.files = MapSet(@, finalPath, loop.out)]
      IN IF ~loop.ok THEN Result(written, FALSE, ErrENOENT, NoRet)
         ELSE IF SumLen(loop.out) # session.metadata.size
         THEN Result(written, FALSE, ErrSizeMismatch, NoRet)
         ELSE Result(completeUpload(cleanupChunks(written, session), fileId),
                     TRUE, None, [NoRet EXCEPT !.size = SumLen(loop.out)])

resumeUpload(st, fileId) ==
  IF ~HasSession(st, fileId) THEN Result(st, FALSE, ErrNotFound, NoRet)
  ELSE
    LET session == getSession(st, fileId)
        all == 0..(session.totalChunks - 1)
    IN IF all # {} /\ Undefined(session, "tempDir")
       THEN Result(st, FALSE, ErrPathType, NoRet)
       ELSE
         LET existingChunks ==
               IF all = {} THEN {}
               ELSE {i \in all : session.tempDir \in DOMAIN st.disk.chunks
                                 /\ i \in DOMAIN st.disk.chunks[session.tempDir]}
             st1 == IF existingChunks = {} \/ Undefined(session, "receivedChunks")
                    THEN st
                    ELSE [st EXCEPT !.uploadSessions[fileId].receivedChunks =
                                       @ \cup existingChunks]
         IN Result(st1, TRUE, None,
                   [NoRet EXCEPT
                      !.totalChunks = session.totalChunks,
                      !.received = existingChunks,
                      !.missing = all \ existingChunks,
                      !.progress = Rat(Cardinality(existingChunks),
                                       session.totalChunks)])

cancelUpload(st, fileId) ==
  IF ~HasSession(st, fileId) THEN st
  ELSE handleUploadError(cleanupChunks(st, getSession(st, fileId)), fileId,
                         FALSE)

\* validateChunks: TRUE, or FALSE on a mismatch or on any error caught
validateChunks(st, fileId) ==
  IF ~HasSession(st, fileId) THEN FALSE
  ELSE
    LET session == getSession(st, fileId)
        all == 0..(session.totalChunks - 1)
    IN IF all = {} THEN TRUE
       ELSE IF Undefined(session, "receivedChunks") THEN FALSE
       ELSE IF Undefined(session, "tempDir") THEN
              session.receivedChunks \cap all = {}
       ELSE \A i \in all \cap session.receivedChunks :
              /\ i \in DOMAIN st.disk.chunks[session.tempDir]
              /\ (i \in DOMAIN session.chunkHashes =>
                    Md5(st.disk.chunks[session.tempDir][i])
                      = session.chunkHashes[i])

\* ------------------------------------------------- ErrorRecoveryManager
categorizeError(message) ==
  LET has == Includes(message) IN
  IF "network" \in has \/ "timeout" \in has THEN "network"
  ELSE IF "size" \in has \/ "limit" \in has THEN "size"
  ELSE IF "format" \in has \/ "type" \in has THEN "format"
  ELSE IF "permission" \in has \/ "access" \in has THEN "permission"
  ELSE IF "storage" \in has \/ "disk" \in has THEN "storage"
  ELSE IF "authentication" \in has \/ "auth" \in has THEN "auth"
  ELSE "unknown"

isRetryableError(message, errorType) ==
  /\ errorType \notin {"format", "permission", "auth"}
  /\ Includes(message) \cap
       {"unsupported file type", "file too large", "invalid file format",
        "permission denied", "authentication failed"} = {}

RECURSIVE Pow2(_)
Pow2(k) == IF k <= 0 THEN 1 ELSE 2 * Pow2(k - 1)

Min(a, b) == IF a <= b THEN a ELSE b

\* the delay before jitter: Math.min(baseDelay * 2^(attempt-1), maxDelay)
CappedDelay_NoCap(attempt) == baseDelay * Pow2(attempt - 1)
CappedDelay(attempt) == Min(baseDelay * Pow2(attempt - 1), maxDelay)

\* calculateBackoffDelay with Math.random() = random / JitterSteps for
\* random < JitterSteps: the double sum never lies within a rounding error of
\* an integer it has not reached, so the floor is the integer one.
\* random = JitterSteps stands for the largest doubles below 1
\* (1 - k * 2^-52, k small): jitterAmount is then within an ulp of delay / 10
\* and the double sum delay + jitterAmount rounds to delay + delay / 10.
calculateBackoffDelay(attempt, random) ==
  LET delay == CappedDelay(attempt) IN
  IF random = JitterSteps THEN delay + delay \div 10
  ELSE delay + (delay * random) \div (10 * JitterSteps)

\* getRetryInfo: the retry record of fileId, created when absent
getRetryInfo(st, fileId) ==
  IF fileId \in DOMAIN st.retryAttempts THEN st
  ELSE [st EXCEPT !.retryAttempts =
          MapSet(@, fileId, [attempts |-> 0, errorHistory |-> <<>>])]

handleFinalFailure_Rearm(st, fileId, retryInfo) ==
  LET st1 == [st EXCEPT !.retryAttempts = MapDelete(@, fileId),
                        !.retryTimers[fileId][TRUE] = @ + 1,
                        !.hist[fileId].retries = 0,
                        !.hist[fileId].failed = TRUE]
  IN Result(handleUploadError(st1, fileId, FALSE), TRUE, None,
            [NoRet EXCEPT !.action = "failure",
                          !.attempt = retryInfo.attempts])
handleFinalFailure(st, fileId, retryInfo) ==
  LET st1 == [st EXCEPT !.retryAttempts = MapDelete(@, fileId),
                        !.hist[fileId].retries = 0,
                        !.hist[fileId].failed = TRUE]
  IN Result(handleUploadError(st1, fileId, FALSE), TRUE, None,
            [NoRet EXCEPT !.action = "failure",
                          !.attempt = retryInfo.attempts])

\* attempts at which handleError gives up
RetriesExhausted_NoBound(attempts) == FALSE
RetriesExhausted(attempts) == attempts >= maxRetries

handleError(st, fileId, message, context) ==
  LET st0 == getRetryInfo(st, fileId)
      errorType == categorizeError(message)
      retryInfo == [attempts |-> st0.retryAttempts[fileId].attempts + 1,
                    errorHistory |->
                      Append(st0.retryAttempts[fileId].errorHistory, errorType)]
      st1 == [st0 EXCEPT !.retryAttempts[fileId] = retryInfo]
      retryable == isRetryableError(message, errorType)
  IN IF ~retryable \/ RetriesExhausted(retryInfo.attempts)
     THEN handleFinalFailure(st1, fileId, retryInfo)
     ELSE
       LET st2 == handleUploadError(st1, fileId, retryable)
           st3 == [st2 EXCEPT
                     !.retryTimers[fileId][context.chunkedUpload] = @ + 1,
                     !.hist[fileId].retries = @ + 1]
       IN Result(st3, TRUE, None,
                 [NoRet EXCEPT !.action = "retry",
                               !.attempt = retryInfo.attempts])

retryChunkedUpload(st, fileId) ==
  LET resumeInfo == resumeUpload(st, fileId) IN
  IF ~resumeInfo.ok THEN resumeInfo
  ELSE IF resumeInfo.ret.missing # {}
  THEN Result(updateProgress(resumeInfo.st, fileId, resumeInfo.ret.progress,
                             "resuming"),
              TRUE, None, resumeInfo.ret)
  ELSE resumeInfo

retryRegularUpload(st, fileId) ==
  Result(updateProgress(st, fileId, Zero, "retrying"), TRUE, None, NoRet)

executeRetry(st, fileId, context) ==
  LET st1 == updateProgress(getRetryInfo(st, fileId), fileId, Zero, "retrying")
      retried == IF context.chunkedUpload
                 THEN retryChunkedUpload(st1, fileId)
                 ELSE retryRegularUpload(st1, fileId)
  IN IF retried.ok THEN retried
     ELSE handleError(retried.st, fileId, retried.error, context)

\* ------------------------------------------------------------ inputs
ProgressInputs == {[n |-> -1, d |-> 2], [n |-> 1, d |-> 2], [n |-> 3, d |-> 2]}

\* ------------------------------------------------------ step plumbing
NoData == [bytes |-> None, len |-> 0]

\* an operation: the caller (the authenticated user of a request), its
\* arguments, the HTTP status or outcome, the error thrown and the value
\* returned by the manager method it ran
Call(op, fileId, caller, index, data, result, error, ret) ==
  [op |-> op, fileId |-> fileId, caller |-> caller, index |-> index,
   data |-> data, result |-> result, error |-> error, ret |-> ret]

\* the step leaves the program in state st, having run the operation c
Commit(st, c) ==
  /\ clients' = st.clients
  /\ inbox' = st.inbox
  /\ uploadSessions' = st.uploadSessions
  /\ sessionTimers' = st.sessionTimers
  /\ pipelines' = st.pipelines
  /\ pipelineTimers' = st.pipelineTimers
  /\ retryAttempts' = st.retryAttempts
  /\ retryTimers' = st.retryTimers
  /\ disk' = st.disk
  /\ hist' = st.hist
  /\ last' = [op |-> c.op, fileId |-> c.fileId, caller |-> c.caller,
              index |-> c.index, data |-> c.data, result |-> c.result,
              error |-> c.error, ret |-> c.ret, events |-> st.events,
              sent |-> st.sent, throwing |-> st.throwing]

\* the same for an operation whose result no property needs
CommitQuiet(st) ==
  /\ clients' = st.clients
  /\ inbox' = st.inbox
  /\ uploadSessions' = st.uploadSessions
  /\ sessionTimers' = st.sessionTimers
  /\ pipelines' = st.pipelines
  /\ pipelineTimers' = st.pipelineTimers
  /\ retryAttempts' = st.retryAttempts
  /\ retryTimers' = st.retryTimers
  /\ disk' = st.disk
  /\ hist' = st.hist
  /\ UNCHANGED last

Init ==
  /\ clients = <<>>
  /\ ws = [c \in Conns |-> [user |-> None, readyState |-> "NONE"]]
  /\ inbox = [c \in Conns |-> {}]
  /\ uploadSessions = <<>>
  /\ sessionTimers = [f \in FileIds |-> 0]
  /\ pipelines = <<>>
  /\ pipelineTimers = [f \in FileIds |-> 0]
  /\ retryAttempts = <<>>
  /\ retryTimers = [f \in FileIds |-> [chunkedUpload \in BOOLEAN |-> 0]]
  /\ disk = [chunks |-> <<>>, files |-> <<>>]
  /\ hist = [f \in FileIds |-> NewHist]
  /\ last = [op |-> "start", fileId |-> None, caller |-> None, index |-> -1,
             data |-> NoData, result |-> None, error |-> None, ret |-> NoRet,
             events |-> <<>>, sent |-> [c \in Conns |-> <<>>],
             throwing |-> {}]
  /\ backoff = [attempt |-> 0, random |-> 0, delay |-> 0]

\* ------------------------------------------------------------ sockets
\* a client opens the WebSocket with a token: verifyClient, handleConnection.
\* awaited: the server waited for verifyClient's verdict.  When it did not,
\* the handshake is completed whatever the token, handleConnection throws and
\* the socket is open but in no connection set.
WsConnect(c, token, awaited) ==
  /\ ws[c].readyState = "NONE"
  /\ LET user == verifyClient(token) IN
     IF ~awaited
     THEN /\ ws' = [ws EXCEPT ![c] = [user |-> None, readyState |-> "OPEN"]]
          /\ CommitQuiet(Cur)
     ELSE IF user = None
     THEN /\ UNCHANGED ws
          /\ CommitQuiet(Cur)
     ELSE /\ ws' = [ws EXCEPT ![c] = [user |-> user, readyState |-> "OPEN"]]
          /\ LET key == ConnectionKey(user)
                 old == IF key \in DOMAIN clients THEN clients[key] ELSE {}
             IN CommitQuiet([Cur EXCEPT !.clients = MapSet(@, key, old \cup {c})])
  /\ UNCHANGED backoff

\* the socket starts closing: readyState is no longer OPEN, 'close' not yet run
WsClosing(c) ==
  /\ ws[c].readyState = "OPEN"
  /\ ws' = [ws EXCEPT ![c].readyState = "CLOSING"]
  /\ CommitQuiet(Cur)
  /\ UNCHANGED backoff

\* ws.on('close').  The closed socket object is gone: a later connection is
\* a new socket, so the slot starts afresh.
WsClose(c) ==
  /\ ws[c].readyState \in {"OPEN", "CLOSING"}
  /\ ws' = [ws EXCEPT ![c] = [user |-> None, readyState |-> "NONE"]]
  /\ LET userId == ws[c].user
         st == IF userId \in DOMAIN clients
               THEN IF clients[userId] \ {c} = {}
                    THEN [Cur EXCEPT !.clients = MapDelete(@, userId)]
                    ELSE [Cur EXCEPT !.clients[userId] = @ \ {c}]
               ELSE Cur
     IN CommitQuiet([st EXCEPT !.inbox[c] = {}])
  /\ UNCHANGED backoff

\* the 30 s timer of completeUpload fires
SessionTimerFire(f) ==
  /\ sessionTimers[f] > 0
  /\ CommitQuiet([Cur EXCEPT !.sessionTimers[f] = @ - 1,
                        !.uploadSessions = MapDelete(@, f)])
  /\ UNCHANGED <<ws, backoff>>

\* ------------------------------------- the push channel called directly
BusStartUploadSession(f, u, size) ==
  /\ CommitQuiet(startUploadSession(Cur, f, u, Metadata(size)))
  /\ UNCHANGED <<ws, backoff>>

BusUpdateProgress(f, p) ==
  /\ CommitQuiet(updateProgress(Cur, f, p, "uploading"))
  /\ UNCHANGED <<ws, backoff>>

BusUpdateChunkProgress(f, i, total, completed) ==
  /\ f \in DOMAIN uploadSessions =>
       uploadSessions[f].completedChunks < MaxCompleted
  /\ CommitQuiet(updateChunkProgress(Cur, f, i, total, completed))
  /\ UNCHANGED <<ws, backoff>>

BusCompleteUpload(f) ==
  /\ sessionTimers[f] < MaxSessionTimers
  /\ CommitQuiet(completeUpload(Cur, f))
  /\ UNCHANGED <<ws, backoff>>

BusHandleUploadError(f, retryable) ==
  /\ CommitQuiet(handleUploadError(Cur, f, retryable))
  /\ UNCHANGED <<ws, backoff>>

SocketNext ==
  \/ \E c \in Conns, t \in Tokens, awaited \in BOOLEAN :
       WsConnect(c, t, awaited)
  \/ \E c \in Conns : WsClosing(c)
  \/ \E c \in Conns : WsClose(c)

BusFiles == {"f1"}

NextBus ==
  \/ SocketNext
  \/ \E f \in BusFiles : SessionTimerFire(f)
  \/ \E f \in BusFiles, u \in Users : BusStartUploadSession(f, u, chunkSize)
  \/ \E f \in BusFiles, p \in ProgressInputs : BusUpdateProgress(f, p)
  \/ \E f \in BusFiles, t \in {0, MaxFileChunks}, c \in BOOLEAN :
       BusUpdateChunkProgress(f, 0, t, c)
  \/ \E f \in BusFiles : BusCompleteUpload(f)
  \/ \E f \in BusFiles, r \in BOOLEAN : BusHandleUploadError(f, r)

SpecBus == Init /\ [][NextBus]_vars

\* ------------------------------------------------------ upload routes
\* req.body.fileSize as the body parser delivers it: a number, or a string
FileSizeInputs ==
  {[str |-> FALSE, n |-> 0], [str |-> TRUE, n |-> 0],
   [str |-> FALSE, n |-> (MaxFileChunks - 1) * chunkSize + 1]}

ToolResources == {None, "ocr"}

\* the output path of a complete request
FinalPath(f) == f

\* the requiredStages POST /init builds; audio: fileType starts with 'audio/'
RequiredStages(toolResource, audio) ==
  (IF toolResource = "ocr" THEN <<"ocr">> ELSE <<>>)
    \o (IF toolResource = "file_search" THEN <<"embedding">> ELSE <<>>)
    \o (IF audio THEN <<"stt">> ELSE <<>>)

\* POST /init
RouteInitTyped(u, f, fileSize, toolResource, audio) ==
  /\ IF ~fileSize.str /\ fileSize.n = 0
     THEN Commit(Cur, Call("init", f, u, -1, NoData, "400", None, NoRet))
     ELSE
       LET r == initializeChunkedUpload(Cur, f, u, fileSize.n)
           requiredStages == RequiredStages(toolResource, audio)
       IN IF ~r.ok
          THEN Commit(r.st, Call("init", f, u, -1, NoData, "500", r.error,
                                 NoRet))
          ELSE Commit([initializePipeline(r.st, f, u, requiredStages)
                         EXCEPT !.hist[f].tempDir = r.ret.tempDir],
                      Call("init", f, u, -1, NoData, "200", None, r.ret))
  /\ UNCHANGED <<ws, backoff>>

\* POST /init for a file whose fileType does not start with 'audio/'
RouteInit(u, f, fileSize, toolResource) ==
  RouteInitTyped(u, f, fileSize, toolResource, FALSE)

\* POST /upload/:fileId/:chunkIndex
RouteUpload(u, f, chunkIndex, chunkData, chunkHash) ==
  /\ IF chunkIndex < 0
     THEN Commit(Cur, Call("upload", f, u, chunkIndex, chunkData, "400", None,
                           NoRet))
     ELSE
       LET r == uploadChunk(Cur, f, chunkIndex, chunkData, chunkHash) IN
       IF r.ok
       THEN Commit([r.st EXCEPT !.hist[f].accepted =
                               IF r.ret.already THEN @
                               ELSE MapSet(@, chunkIndex, chunkData),
                             !.hist[f].completes =
                               IF r.ret.already THEN @ ELSE 0],
                   Call("upload", f, u, chunkIndex, chunkData, "200", None,
                        r.ret))
       ELSE
         LET rec == handleError(r.st, f, r.error, [chunkedUpload |-> TRUE])
         IN /\ rec.st.retryTimers[f][TRUE] <= MaxRetryTimers
            /\ Commit(rec.st, Call("upload", f, u, chunkIndex, chunkData,
                                   "500", r.error, rec.ret))
  /\ UNCHANGED <<ws, backoff>>

\* GET /resume/:fileId
RouteResume(u, f) ==
  /\ LET r == resumeUpload(Cur, f) IN
     Commit(r.st, Call("resume", f, u, -1, NoData,
                       IF r.ok THEN "200" ELSE "500", r.error, r.ret))
  /\ UNCHANGED <<ws, backoff>>

\* counting up to "two and more"
UpTo2(k) == IF k >= 2 THEN 2 ELSE k + 1

\* POST /complete/:fileId.  The catch block reads fileId, which is declared
\* inside the try block: it throws a ReferenceError before handleError is
\* called, and the request is never answered.
RouteComplete(u, f, toolResource) ==
  /\ LET st0 == [Cur EXCEPT !.hist[f].completes = UpTo2(@)]
         st1 == startStage(st0, f, "processing")
         r == assembleFile(st1, f, FinalPath(f))
     IN IF r.ok
        THEN
          LET st2 == completeStage(r.st, f, "processing")
              st3 == IF toolResource = "ocr" THEN startStage(st2, f, "ocr")
                     ELSE IF toolResource = "file_search"
                          THEN startStage(st2, f, "embedding")
                          ELSE st2
          IN /\ st3.sessionTimers[f] <= MaxSessionTimers
             /\ Commit([st3 EXCEPT !.hist[f].assembled = UpTo2(@)],
                       Call("complete", f, u, -1, NoData, "200", None,
                                 r.ret))
        ELSE Commit(r.st, Call("complete", f, u, -1, NoData, "unanswered",
                               r.error, NoRet))
  /\ UNCHANGED <<ws, backoff>>

\* DELETE /:fileId
RouteCancel(u, f) ==
  /\ Commit(cancelUpload(Cur, f),
            Call("cancel", f, u, -1, NoData, "200", None, NoRet))
  /\ UNCHANGED <<ws, backoff>>

\* GET /status/:fileId
RouteStatus(u, f) ==
  /\ Commit(Cur, Call("status", f, u, -1, NoData,
                      IF ~HasSession(Cur, f) /\ f \notin DOMAIN pipelines
                      THEN "404" ELSE "200", None, NoRet))
  /\ UNCHANGED <<ws, backoff>>

\* POST /validate/:fileId
RouteValidate(u, f) ==
  /\ Commit(Cur, Call("validate", f, u, -1, NoData, "200", None,
                      [NoRet EXCEPT !.valid = validateChunks(Cur, f)]))
  /\ UNCHANGED <<ws, backoff>>

\* a timer set by handleError fires: executeRetry
RetryTimerFire(f, chunkedUpload) ==
  /\ retryTimers[f][chunkedUpload] > 0
  /\ LET st1 == [Cur EXCEPT !.retryTimers[f][chunkedUpload] = @ - 1]
         r == executeRetry(st1, f, [chunkedUpload |-> chunkedUpload])
     IN Commit(r.st, Call("executeRetry", f, None, -1, NoData,
                          IF r.ok THEN "ok" ELSE "error", r.error, r.ret))
  /\ UNCHANGED <<ws, backoff>>

UploadFiles == {"f1"}

\* the chunk and the chunkHash form field of an upload request: no hash, the
\* hash of the chunk, the hash of other bytes
UploadInputs ==
  LET x == [bytes |-> "x", len |-> chunkSize]
      y == [bytes |-> "y", len |-> 1]
  IN {<<x, NoHash>>, <<x, Md5(x)>>, <<y, Md5(x)>>}

NextUpload ==
  \/ \E u \in Users, f \in UploadFiles, size \in FileSizeInputs :
       RouteInit(u, f, size, None)
  \/ \E u \in Users, f \in UploadFiles, i \in (-1)..MaxFileChunks,
        in \in UploadInputs : RouteUpload(u, f, i, in[1], in[2])
  \/ \E u \in Users, f \in UploadFiles : RouteResume(u, f)
  \/ \E u \in Users, f \in UploadFiles, t \in ToolResources :
       RouteComplete(u, f, t)
  \/ \E u \in Users, f \in UploadFiles : RouteCancel(u, f)
  \/ \E u \in Users, f \in UploadFiles : RouteStatus(u, f)
  \/ \E u \in Users, f \in UploadFiles : RouteValidate(u, f)
  \/ \E f \in UploadFiles : RetryTimerFire(f, TRUE)

SpecUpload == Init /\ [][NextUpload]_vars

\* ------------------------------------------ stage operations, directly
PipeStartStage(f, stageName) ==
  /\ Commit(startStage(Cur, f, stageName),
            Call("startStage", f, None, -1, NoData, "ok", None, NoRet))
  /\ UNCHANGED <<ws, backoff>>

PipeUpdateStageProgress(f, stageName, p) ==
  /\ Commit(updateStageProgress(Cur, f, stageName, p),
            Call("updateStageProgress", f, None, -1, NoData, "ok", None, NoRet))
  /\ UNCHANGED <<ws, backoff>>

PipeCompleteStage(f, stageName) ==
  /\ Commit(completeStage(Cur, f, stageName),
            Call("completeStage", f, None, -1, NoData, "ok", None, NoRet))
  /\ UNCHANGED <<ws, backoff>>

PipeHandleStageError(f, stageName, recoverable) ==
  /\ Commit(handleStageError(Cur, f, stageName, recoverable),
            Call("handleStageError", f, None, -1, NoData, "ok", None, NoRet))
  /\ UNCHANGED <<ws, backoff>>

PipeCompletePipeline(f) ==
  /\ pipelineTimers[f] < MaxPipelineTimers
  /\ sessionTimers[f] < MaxSessionTimers
  /\ Commit(completePipeline(Cur, f),
            Call("completePipeline", f, None, -1, NoData, "ok", None, NoRet))
  /\ UNCHANGED <<ws, backoff>>

\* the 60 s timer of completePipeline fires
PipelineTimerFire(f) ==
  /\ pipelineTimers[f] > 0
  /\ CommitQuiet([Cur EXCEPT !.pipelineTimers[f] = @ - 1,
                        !.pipelines = MapDelete(@, f)])
  /\ UNCHANGED <<ws, backoff>>

PipelineFiles == {"f1"}
StageInputs == {"upload", "processing", "ocr"}
OneChunkFile == [str |-> FALSE, n |-> chunkSize]

NextPipeline ==
  \/ \E f \in PipelineFiles, t \in ToolResources :
       RouteInit("A", f, OneChunkFile, t)
  \/ \E f \in PipelineFiles, n \in StageInputs : PipeStartStage(f, n)
  \/ \E f \in PipelineFiles, n \in StageInputs, p \in ProgressInputs :
       PipeUpdateStageProgress(f, n, p)
  \/ \E f \in PipelineFiles, n \in StageInputs : PipeCompleteStage(f, n)
  \/ \E f \in PipelineFiles, n \in StageInputs, r \in BOOLEAN :
       PipeHandleStageError(f, n, r)

SpecPipeline == Init /\ [][NextPipeline]_vars

PipeInitializePipeline(f, u, requiredStages) ==
  /\ Commit(initializePipeline(Cur, f, u, requiredStages),
            Call("initializePipeline", f, u, -1, NoData, "ok", None, NoRet))
  /\ UNCHANGED <<ws, backoff>>

\* the keys of this.stages in the order of the table
StageOrder ==
  <<"upload", "validation", "processing", "ocr", "stt", "embedding",
    "storage", "cleanup">>

\* the stages buildStageList always puts in
BaseStages == {"upload", "validation", "processing", "storage", "cleanup"}

\* pipelines built by POST /init for every toolResource and file type, and by
\* initializePipeline for required stages in any order
StageListTools == {None, "ocr", "file_search"}
StageListInputs ==
  {<<>>, <<"ocr">>, <<"ocr", "stt">>, <<"stt", "ocr">>, <<"ocr", "ocr">>}
StageListFiles == {"f1"}

NextStageList ==
  \/ \E f \in StageListFiles, t \in StageListTools, audio \in BOOLEAN :
       RouteInitTyped("A", f, OneChunkFile, t, audio)
  \/ \E f \in StageListFiles, rs \in StageListInputs :
       PipeInitializePipeline(f, "A", rs)
  \/ \E f \in StageListFiles, n \in {"upload", "stt"} : PipeStartStage(f, n)
  \/ \E f \in StageListFiles, n \in {"upload", "stt"} :
       PipeCompleteStage(f, n)

SpecStageList == Init /\ [][NextStageList]_vars

\* every stage of a pipeline without required stages started and completed,
\* the pipeline completed, its session and pipeline initialised again
StageNames == {"upload", "validation", "processing", "storage", "cleanup"}

NextStages ==
  \/ \E f \in PipelineFiles : RouteInit("A", f, OneChunkFile, None)
  \/ \E f \in PipelineFiles, n \in StageNames : PipeStartStage(f, n)
  \/ \E f \in PipelineFiles, n \in StageNames : PipeCompleteStage(f, n)
  \/ \E f \in PipelineFiles : PipeCompletePipeline(f)
  \/ \E f \in PipelineFiles : SessionTimerFire(f)
  \/ \E f \in PipelineFiles : PipelineTimerFire(f)

SpecStages == Init /\ [][NextStages]_vars

\* ------------------------------------------- error recovery, directly
RecHandleError(f, message, chunkedUpload) ==
  /\ LET rec == handleError(Cur, f, message, [chunkedUpload |-> chunkedUpload])
     IN /\ rec.st.retryTimers[f][chunkedUpload] <= MaxRetryTimers
        /\ Commit(rec.st, Call("handleError", f, None, -1, NoData, "ok",
                               message, rec.ret))
  /\ UNCHANGED <<ws, backoff>>

RecoveryFiles == {"f1"}
RecoveryErrors == {ErrNetwork, ErrPermission, ErrBadIndex}

NextRecovery ==
  \/ \E f \in RecoveryFiles, m \in RecoveryErrors, c \in BOOLEAN :
       RecHandleError(f, m, c)
  \/ \E f \in RecoveryFiles, c \in BOOLEAN : RetryTimerFire(f, c)
  \/ \E f \in RecoveryFiles, u \in Users : BusStartUploadSession(f, u, chunkSize)
  \/ \E f \in RecoveryFiles : BusCompleteUpload(f)
  \/ \E f \in RecoveryFiles : SessionTimerFire(f)

SpecRecovery == Init /\ [][NextRecovery]_vars

\* ------------------------------ handleError over the messages of the model
ClassifyFiles == {"f1"}

NextClassify ==
  \/ \E f \in ClassifyFiles, m \in Messages : RecHandleError(f, m, FALSE)
  \/ \E f \in ClassifyFiles : RetryTimerFire(f, FALSE)

SpecClassify == Init /\ [][NextClassify]_vars

\* --------------------------------------------- the backoff function
BackoffStep(attempt, random) ==
  /\ backoff' = [attempt |-> attempt, random |-> random,
                 delay |-> calculateBackoffDelay(attempt, random)]
  /\ UNCHANGED <<clients, ws, inbox, uploadSessions, sessionTimers, pipelines,
                 pipelineTimers, retryAttempts, retryTimers, disk, hist, last>>

NextBackoff ==
  \E attempt \in 1..MaxAttempt, random \in 0..JitterSteps :
    BackoffStep(attempt, random)

SpecBackoff == Init /\ [][NextBackoff]_vars

\* ------------------- the push channel called directly, sends that may throw
PubStartUploadSession(f, u, throwing) ==
  /\ Commit(startUploadSession([Cur EXCEPT !.throwing = throwing], f, u,
                               Metadata(chunkSize)),
            Call("startUploadSession", f, u, -1, NoData, "ok", None, NoRet))
  /\ UNCHANGED <<ws, backoff>>

PubUpdateProgress(f, p, throwing) ==
  /\ Commit(updateProgress([Cur EXCEPT !.throwing = throwing], f, p,
                           "uploading"),
            Call("updateProgress", f, None, -1, NoData, "ok", None, NoRet))
  /\ UNCHANGED <<ws, backoff>>

PubCompleteUpload(f, throwing) ==
  /\ sessionTimers[f] < MaxSessionTimers
  /\ Commit(completeUpload([Cur EXCEPT !.throwing = throwing], f),
            Call("completeUpload", f, None, -1, NoData, "ok", None, NoRet))
  /\ UNCHANGED <<ws, backoff>>

PubHandleUploadError(f, retryable, throwing) ==
  /\ Commit(handleUploadError([Cur EXCEPT !.throwing = throwing], f, retryable),
            Call("handleUploadError", f, None, -1, NoData, "ok", None, NoRet))
  /\ UNCHANGED <<ws, backoff>>

PubFiles == {"f1"}
PubProgress == [n |-> 1, d |-> 2]

NextPublish ==
  \/ \E c \in Conns, t \in Tokens : WsConnect(c, t, TRUE)
  \/ \E c \in Conns : WsClosing(c)
  \/ \E c \in Conns : WsClose(c)
  \/ \E f \in PubFiles : SessionTimerFire(f)
  \/ \E f \in PubFiles, u \in Users, throwing \in SUBSET Conns :
       PubStartUploadSession(f, u, throwing)
  \/ \E f \in PubFiles, throwing \in SUBSET Conns :
       PubUpdateProgress(f, PubProgress, throwing)
  \/ \E f \in PubFiles, throwing \in SUBSET Conns : PubCompleteUpload(f, throwing)
  \/ \E f \in PubFiles, throwing \in SUBSET Conns :
       PubHandleUploadError(f, TRUE, throwing)

SpecPublish == Init /\ [][NextPublish]_vars

\* ------------------------------ requests and publications, sends that work
NextOrder ==
  \/ \E c \in Conns, t \in Tokens : WsConnect(c, t, TRUE)
  \/ \E c \in Conns : WsClosing(c)
  \/ \E c \in Conns : WsClose(c)
  \/ \E f \in PubFiles : SessionTimerFire(f)
  \/ \E f \in PubFiles, u \in Users : RouteInit(u, f, OneChunkFile, None)
  \/ \E f \in PubFiles : PubUpdateProgress(f, PubProgress, {})
  \/ \E f \in PubFiles : PubCompleteUpload(f, {})

SpecOrder == Init /\ [][NextOrder]_vars

\* =================================================================== claims

\* C1 (fan-out isolation, SpecBus): whatever connect, disconnect,
\* startUploadSession, updateProgress, updateChunkProgress, completeUpload and
\* handleUploadError have run, every message a socket has been sent about a
\* fileId belongs to a session owned by the user the socket authenticated as.
C1_FanOutIsolation ==
  \A c \in Conns : \A m \in inbox[c] : m.owner = ws[c].user

\* C1 witness: two users are connected, a session of B has published, B's
\* socket has the message and A's socket has nothing.
C1_Witness ==
  \E a \in Conns, b \in Conns :
    /\ ws[a] = [user |-> "A", readyState |-> "OPEN"]
    /\ ws[b] = [user |-> "B", readyState |-> "OPEN"]
    /\ "f1" \in DOMAIN uploadSessions
    /\ uploadSessions["f1"].userId = "B"
    /\ [fileId |-> "f1", owner |-> "B"] \in inbox[b]
    /\ inbox[a] = {}

\* C2 (assembly correctness, SpecUpload): a complete request for a session
\* all of whose indices [0, totalChunks) have been accepted succeeds, the
\* output file is the accepted chunks in index order and the size reported is
\* the declared file size.
C2_AssemblyCorrect ==
  LET f == last.fileId IN
  (last.op = "complete" /\ f \in DOMAIN uploadSessions) =>
    LET n == uploadSessions[f].metadata.totalChunks IN
    DOMAIN hist[f].accepted = 0..(n - 1) =>
      /\ last.result = "200"
      /\ FinalPath(f) \in DOMAIN disk.files
      /\ disk.files[FinalPath(f)] = [i \in 1..n |-> hist[f].accepted[i - 1]]
      /\ last.ret.size = uploadSessions[f].metadata.size

\* C3 (happy path, SpecUpload): on a session of a file of size > 0 that is
\* still uploading, the owner's upload of an index in [0, totalChunks) with no
\* or the right digest is accepted; and once every index is accepted the
\* owner's complete request succeeds and publishes upload_completed.
C3_HappyPath ==
  [][/\ \A u \in Users, f \in UploadFiles, i \in 0..(MaxFileChunks - 1),
          in \in UploadInputs :
          (/\ RouteUpload(u, f, i, in[1], in[2])
           /\ f \in DOMAIN uploadSessions
           /\ uploadSessions[f].status = "uploading"
           /\ uploadSessions[f].userId = u
           /\ i < uploadSessions[f].metadata.totalChunks
           /\ in[2] \in {NoHash, Md5(in[1])})
          => (last'.result = "200" /\ i \in DOMAIN hist'[f].accepted)
     /\ \A u \in Users, f \in UploadFiles, t \in ToolResources :
          (/\ RouteComplete(u, f, t)
           /\ f \in DOMAIN uploadSessions
           /\ uploadSessions[f].status = "uploading"
           /\ uploadSessions[f].userId = u
           /\ uploadSessions[f].metadata.size > 0
           /\ DOMAIN hist[f].accepted =
                0..(uploadSessions[f].metadata.totalChunks - 1))
          => /\ last'.result = "200"
             /\ \E k \in DOMAIN last'.events :
                  last'.events[k].type = "upload_completed"]_vars

\* C4 (owner enforcement, SpecUpload): an upload, resume, complete, cancel,
\* status or validate request for a fileId whose session belongs to another
\* user is refused: it is not answered with success, changes no state and
\* publishes nothing.
C4_OwnerEnforced ==
  [][\A f \in FileIds :
       (/\ last' # last
        /\ last'.fileId = f
        /\ last'.op \in {"upload", "resume", "complete", "cancel", "status",
                         "validate"}
        /\ f \in DOMAIN uploadSessions
        /\ uploadSessions[f].userId # last'.caller)
       => /\ last'.result # "200"
          /\ uploadSessions' = uploadSessions
          /\ pipelines' = pipelines
          /\ retryAttempts' = retryAttempts
          /\ disk' = disk
          /\ last'.events = <<>>]_vars

\* C5 (uploadChunk is idempotent, SpecUpload): when the upload of (f, i, b),
\* i an index of the file, is repeated at once, the second request answers
\* alreadyReceived and leaves the sessions, the chunk files and the retry
\* records as the first left them, publishing nothing.
C5_UploadIdempotent ==
  [][\A u \in Users, f \in UploadFiles, i \in 0..(MaxFileChunks - 1),
        in \in UploadInputs :
       (/\ RouteUpload(u, f, i, in[1], in[2])
        /\ last.op = "upload" /\ last.fileId = f /\ last.index = i
        /\ last.data = in[1]
        /\ last.error # ErrHashMismatch
        /\ f \in DOMAIN uploadSessions
        /\ i < uploadSessions[f].metadata.totalChunks)
       => /\ last'.result = "200"
          /\ last'.ret.already
          /\ uploadSessions' = uploadSessions
          /\ retryAttempts' = retryAttempts
          /\ disk' = disk
          /\ last'.events = <<>>]_vars

\* C6 (resume correctness, SpecUpload): a resume request on an existing
\* session succeeds; with total = ceil(size / chunkSize), the missing set it
\* returns is [0, total) minus the received set, the two sets partition
\* [0, total), the received set is the set of accepted indices and the
\* progress is |received| / total.
C6_ResumeCorrect ==
  LET f == last.fileId IN
  (last.op = "resume" /\ f \in DOMAIN uploadSessions) =>
    LET total == uploadSessions[f].metadata.totalChunks
        all == 0..(total - 1)
    IN /\ last.result = "200"
       /\ last.ret.received = DOMAIN hist[f].accepted
       /\ last.ret.missing = all \ last.ret.received
       /\ last.ret.received \cup last.ret.missing = all
       /\ last.ret.received \cap last.ret.missing = {}
       /\ total > 0 =>
            last.ret.progress = Rat(Cardinality(last.ret.received), total)

\* C7 (monotonic progress, SpecPipeline): while no stage of the pipeline has
\* failed, the progress value startStage, updateStageProgress, completeStage
\* or handleStageError publishes for a session is never lower than the value
\* published for it before.
C7_MonotonicProgress ==
  [][\A f \in PipelineFiles :
       (/\ last'.op \in {"startStage", "updateStageProgress", "completeStage",
                         "handleStageError"}
        /\ last'.fileId = f
        /\ f \in DOMAIN pipelines
        /\ \A k \in DOMAIN pipelines[f].stages :
             pipelines[f].stages[k].status # "error"
        /\ hist[f].hasProgress
        /\ hist'[f].hasProgress)
       => NumLeq(hist[f].lastProgress, hist'[f].lastProgress)]_vars

\* C8 (retry bound, SpecRecovery): handleError returns at most maxRetries
\* 'retry' actions for a fileId before it returns a final 'failure', and the
\* attempts of a retry record never exceed maxRetries.
C8_RetryBound ==
  \A f \in FileIds :
    /\ hist[f].retries <= maxRetries
    /\ f \in DOMAIN retryAttempts => retryAttempts[f].attempts <= maxRetries

\* C8 witness: handleError has given up on a retryable error because the
\* attempts reached maxRetries, after the retries before it.
C8_Witness ==
  /\ last.op = "handleError"
  /\ isRetryableError(last.error, categorizeError(last.error))
  /\ last.ret.action = "failure"
  /\ last.ret.attempt = maxRetries

\* C9 (no recovery after the final failure, SpecRecovery): once handleError
\* has returned the final failure for a fileId, and until a new session is
\* created for it, no timer runs executeRetry for it, no handleError for it
\* returns 'retry' and nothing more is published for it.
C9_NoRecoveryAfterFailure ==
  [][\A f \in FileIds :
       (/\ hist[f].failed
        /\ hist'[f].failed
        /\ last' # last
        /\ last'.fileId = f)
       => /\ last'.op # "executeRetry"
          /\ last'.ret.action # "retry"
          /\ last'.events = <<>>]_vars

\* C10 as stated (SpecBackoff): with d(n) = min(maxDelay, baseDelay * 2^(n-1)),
\* the delay returned for attempt n lies in the half-open interval
\* [d(n), 1.1 * d(n)).
C10_DelayBelowUpperEnd ==
  backoff.attempt >= 1 =>
    LET d == IF baseDelay * 2^(backoff.attempt - 1) < maxDelay
             THEN baseDelay * 2^(backoff.attempt - 1) ELSE maxDelay
    IN d <= backoff.delay /\ 10 * backoff.delay < 11 * d

\* C10 amended (SpecBackoff): d(1) = baseDelay, d(n) = min(maxDelay,
\* 2 * d(n-1)) so the delay before jitter doubles until it is capped and never
\* decreases; the delay returned for attempt n lies in the closed interval
\* [d(n), 1.1 * d(n)], and the first retry waits at least 1000 ms and less
\* than 2000 ms.
C10_BackoffBounds ==
  backoff.attempt >= 1 =>
    LET n == backoff.attempt
        d == IF baseDelay * 2^(n - 1) < maxDelay
             THEN baseDelay * 2^(n - 1) ELSE maxDelay
    IN /\ CappedDelay(n) = d
       /\ n = 1 => d = baseDelay
       /\ n > 1 => /\ CappedDelay(n - 1) <= d
                   /\ d = Min(2 * CappedDelay(n - 1), maxDelay)
       /\ d <= backoff.delay
       /\ 10 * backoff.delay <= 11 * d
       /\ n = 1 => (1000 <= backoff.delay /\ backoff.delay < 2000)

\* C10 witness: a capped attempt whose jitter is the largest possible.
C10_Witness ==
  /\ backoff.attempt = MaxAttempt
  /\ backoff.random = JitterSteps
  /\ backoff.delay = maxDelay + maxDelay \div 10

\* C11 (one assembler, SpecUpload): of the complete requests a session sees
\* once all its indices are accepted, exactly one proceeds to assemble and is
\* answered with success; when two or more have been handled, one and only
\* one has won.
C11_OneAssemblerWins ==
  \A f \in FileIds :
    (/\ f \in DOMAIN uploadSessions
     /\ DOMAIN hist[f].accepted =
          0..(uploadSessions[f].metadata.totalChunks - 1)
     /\ hist[f].completes = 2)
    => hist[f].assembled = 1

\* ------------------------------------- sessions of two files side by side
NextSessions ==
  \/ \E u \in Users, f \in FileIds : RouteInit(u, f, OneChunkFile, None)
  \/ \E f \in FileIds :
       RouteUpload("A", f, 0, [bytes |-> "x", len |-> chunkSize], NoHash)
  \/ \E f \in FileIds : RouteCancel("A", f)

SpecSessions == Init /\ [][NextSessions]_vars

\* ------------------------------------------- one file at the size limit
LimitSizes ==
  {[str |-> TRUE, n |-> 0], OneChunkFile,
   [str |-> FALSE, n |-> chunkSize * maxChunks],
   [str |-> FALSE, n |-> chunkSize * maxChunks + 1]}

LimitIndices == {-1, 0, 1, maxChunks}

LimitFiles == {"f1"}

NextLimits ==
  \/ \E u \in Users, f \in LimitFiles, size \in LimitSizes :
       RouteInit(u, f, size, None)
  \/ \E f \in LimitFiles, i \in LimitIndices :
       RouteUpload("A", f, i, [bytes |-> "x", len |-> chunkSize], NoHash)
  \/ \E f \in LimitFiles : RouteResume("A", f)
  \/ \E f \in LimitFiles : RouteCancel("A", f)
  \/ \E f \in LimitFiles : RetryTimerFire(f, TRUE)

SpecLimits == Init /\ [][NextLimits]_vars

\* C12 (chunk storage is keyed by (fileId, index), SpecSessions): two live
\* sessions with different fileIds, also of one owner, have no chunk path in
\* common, so that no write, assembly, cancel or purge of one touches a chunk
\* of the other.
C12_ChunkPathsDisjoint ==
  \A f \in FileIds, g \in FileIds :
    (/\ f # g
     /\ f \in DOMAIN uploadSessions /\ g \in DOMAIN uploadSessions
     /\ uploadSessions[f].status = "uploading"
     /\ uploadSessions[g].status = "uploading")
    => \A i \in 0..(uploadSessions[f].metadata.totalChunks - 1),
          j \in 0..(uploadSessions[g].metadata.totalChunks - 1) :
         ChunkPath(hist[f].tempDir, i) # ChunkPath(hist[g].tempDir, j)

\* C13 (terminal states are final, SpecBus): once the status of a session is
\* completed, or error with retryable false (failed or cancelled), no
\* operation other than the start of a new session changes its status or
\* its progress.
C13_TerminalIsFinal ==
  [][\A f \in BusFiles :
       (/\ f \in DOMAIN uploadSessions
        /\ \/ uploadSessions[f].status = "completed"
           \/ /\ uploadSessions[f].status = "error"
              /\ uploadSessions[f].retryable = "false"
        /\ f \in DOMAIN uploadSessions'
        /\ ~ \E u \in Users : BusStartUploadSession(f, u, chunkSize))
       => /\ uploadSessions'[f].status = uploadSessions[f].status
          /\ uploadSessions'[f].progress = uploadSessions[f].progress]_vars

\* C14 (conflict on init, SpecUpload): an init request for a fileId whose
\* session is not terminal (uploading, or error still retryable) is not
\* answered with success and leaves the session as it was.
C14_InitConflict ==
  [][\A u \in Users, f \in UploadFiles, size \in FileSizeInputs,
        t \in ToolResources :
       (/\ RouteInit(u, f, size, t)
        /\ f \in DOMAIN uploadSessions
        /\ \/ uploadSessions[f].status = "uploading"
           \/ /\ uploadSessions[f].status = "error"
              /\ uploadSessions[f].retryable = "true")
       => /\ last'.result # "200"
          /\ uploadSessions' = uploadSessions]_vars

\* C15 (upload after cancel, SpecUpload): an upload request that follows the
\* cancel of an existing session of the same fileId fails with 'Upload
\* session not found' and records no chunk.
C15_UploadAfterCancel ==
  [][\A u \in Users, f \in UploadFiles, i \in 0..MaxFileChunks,
        in \in UploadInputs :
       (/\ RouteUpload(u, f, i, in[1], in[2])
        /\ last.op = "cancel" /\ last.fileId = f
        /\ hist[f].tempDir # None)
       => /\ last'.result # "200"
          /\ last'.error = ErrNotFound
          /\ disk' = disk
          /\ hist'[f].accepted = hist[f].accepted]_vars

\* C16 (terminal error kinds are not retried, SpecUpload): when an upload
\* fails with 'Upload session not found', 'Invalid chunk index' or a hash
\* mismatch, handleError returns no 'retry' action and no retry timer is set.
C16_TerminalErrorsNotRetried ==
  [][\A u \in Users, f \in UploadFiles, i \in 0..MaxFileChunks,
        in \in UploadInputs :
       (/\ RouteUpload(u, f, i, in[1], in[2])
        /\ last'.error \in {ErrNotFound, ErrBadIndex, ErrHashMismatch})
       => /\ last'.result # "200"
          /\ last'.ret.action # "retry"
          /\ retryTimers' = retryTimers]_vars

\* C17 (a checksum mismatch leaves no trace, SpecUpload): on a session that
\* is uploading, the upload of an index in [0, totalChunks) with a digest
\* that is not the digest of the bytes fails with the hash mismatch error,
\* writes no chunk file and records no chunk; and the upload of the same
\* index with the right digest right after it is accepted and recorded.
C17_ChecksumMismatch ==
  [][\A u \in Users, f \in UploadFiles, i \in 0..(MaxFileChunks - 1),
        in \in UploadInputs :
       /\ (/\ RouteUpload(u, f, i, in[1], in[2])
           /\ f \in DOMAIN uploadSessions
           /\ uploadSessions[f].status = "uploading"
           /\ i < uploadSessions[f].metadata.totalChunks
           /\ in[2] \notin {NoHash, Md5(in[1])})
          => /\ last'.error = ErrHashMismatch
             /\ disk' = disk
             /\ hist'[f].accepted = hist[f].accepted
       /\ (/\ RouteUpload(u, f, i, in[1], in[2])
           /\ last.op = "upload" /\ last.fileId = f /\ last.index = i
           /\ last.error = ErrHashMismatch
           /\ in[2] = Md5(in[1]))
          => /\ last'.result = "200"
             /\ i \in DOMAIN hist'[f].accepted]_vars

\* C18 (index range, SpecLimits): uploadChunk with an index outside
\* [0, totalChunks), totalChunks = ceil(size / chunkSize), throws 'Invalid
\* chunk index' and changes nothing; the upload request is refused, writes no
\* chunk file and records no chunk; and in every state the recorded chunks
\* and the chunks a resume reports lie in [0, totalChunks).
C18_IndexRange ==
  [][/\ \A u \in Users, f \in LimitFiles, i \in LimitIndices :
          LET x == [bytes |-> "x", len |-> chunkSize] IN
          (/\ RouteUpload(u, f, i, x, NoHash)
           /\ f \in DOMAIN uploadSessions
           /\ (i < 0 \/ i >= uploadSessions[f].metadata.totalChunks))
          => /\ ~uploadChunk(Cur, f, i, x, NoHash).ok
             /\ uploadChunk(Cur, f, i, x, NoHash).error = ErrBadIndex
             /\ uploadChunk(Cur, f, i, x, NoHash).st = Cur
             /\ last'.result \in {"400", "500"}
             /\ i >= 0 => last'.error = ErrBadIndex
             /\ disk' = disk
             /\ hist'[f].accepted = hist[f].accepted
             /\ uploadSessions'[f].completedChunks
                  = uploadSessions[f].completedChunks
     /\ \A f \in LimitFiles :
          f \in DOMAIN uploadSessions' =>
            LET all == 0..(uploadSessions'[f].metadata.totalChunks - 1) IN
            /\ DOMAIN hist'[f].accepted \subseteq all
            /\ \A d \in DOMAIN disk'.chunks : DOMAIN disk'.chunks[d] \subseteq all
            /\ (last'.op = "resume" /\ last'.fileId = f)
                 => last'.ret.received \subseteq all]_vars

\* C18 witness: an upload with index = totalChunks > 0 has been refused with
\* 'Invalid chunk index'.
C18_Witness ==
  \E f \in LimitFiles :
    /\ f \in DOMAIN uploadSessions
    /\ uploadSessions[f].metadata.totalChunks > 0
    /\ last.op = "upload" /\ last.fileId = f
    /\ last.index = uploadSessions[f].metadata.totalChunks
    /\ last.result = "500"
    /\ last.error = ErrBadIndex

\* C19 (size limit, SpecLimits): an init with size = chunkSize * maxChunks is
\* accepted and registers the session; an init with a larger size is refused
\* with 'File too large', registers no session and no pipeline and publishes
\* nothing.
C19_SizeLimit ==
  [][\A u \in Users, f \in LimitFiles, size \in LimitSizes :
       RouteInit(u, f, size, None) =>
         /\ size.n > chunkSize * maxChunks =>
              /\ last'.result = "500"
              /\ last'.error = ErrTooLarge
              /\ uploadSessions' = uploadSessions
              /\ pipelines' = pipelines
              /\ last'.events = <<>>
         /\ size.n = chunkSize * maxChunks =>
              /\ last'.result = "200"
              /\ last'.ret.totalChunks = maxChunks
              /\ f \in DOMAIN uploadSessions'
              /\ uploadSessions'[f].userId = u
              /\ uploadSessions'[f].status = "uploading"
              /\ uploadSessions'[f].metadata.size = chunkSize * maxChunks
              /\ \E k \in DOMAIN last'.events :
                   last'.events[k].type = "upload_started"]_vars

\* C19 witness: an init above the limit has been refused and there is no
\* session.
C19_Witness ==
  /\ last.op = "init"
  /\ last.result = "500"
  /\ last.error = ErrTooLarge
  /\ last.fileId \notin DOMAIN uploadSessions

\* C20 (zero-byte file, SpecUpload): an init with size 0 is accepted with
\* totalChunks = 0, and the owner's complete on the still uploading session of
\* a zero-byte file succeeds at once and leaves an empty output file.
C20_ZeroByteFile ==
  [][\A u \in Users, f \in UploadFiles :
       /\ \A size \in FileSizeInputs :
            (size.n = 0 /\ RouteInit(u, f, size, None)) =>
              /\ last'.result = "200"
              /\ last'.ret.totalChunks = 0
              /\ f \in DOMAIN uploadSessions'
              /\ uploadSessions'[f].metadata.size = 0
       /\ \A t \in ToolResources :
            (/\ RouteComplete(u, f, t)
             /\ f \in DOMAIN uploadSessions
             /\ uploadSessions[f].userId = u
             /\ uploadSessions[f].status = "uploading"
             /\ uploadSessions[f].metadata.size = 0) =>
              /\ last'.result = "200"
              /\ FinalPath(f) \in DOMAIN disk'.files
              /\ disk'.files[FinalPath(f)] = <<>>]_vars

\* C21 (classification table, SpecClassify): for a message whose lower-cased
\* text contains the triggers of at most one tag, categorizeError gives that
\* tag ('unknown' if none); handleError never answers 'retry' for format,
\* permission and auth, and answers 'retry' for network, size, storage and
\* unknown while attempts remain.
C21_ClassificationTable ==
  [][\A f \in ClassifyFiles, m \in Messages :
       RecHandleError(f, m, FALSE) =>
         LET lower == toLowerCase(m)
             Triggers ==
               [format |-> {"format", "type", "unsupported"},
                permission |-> {"permission", "access"},
                auth |-> {"authentication", "auth"},
                network |-> {"network", "timeout"},
                size |-> {"size", "limit"},
                storage |-> {"storage", "disk", "io"}]
             Tags == {t \in DOMAIN Triggers :
                        \E w \in Triggers[t] : includes(lower, w)}
             attempts == IF f \in DOMAIN retryAttempts
                         THEN retryAttempts[f].attempts ELSE 0
         IN Cardinality(Tags) <= 1 =>
              LET tag == IF Tags = {} THEN "unknown"
                         ELSE CHOOSE t \in Tags : TRUE
              IN /\ categorizeError(m) = tag
                 /\ tag \in {"format", "permission", "auth"}
                      => last'.ret.action = "failure"
                 /\ (/\ tag \in {"network", "size", "storage", "unknown"}
                     /\ attempts + 1 < maxRetries)
                      => last'.ret.action = "retry"]_vars

\* C22 (token verified at connect, SpecBus): a client whose token is missing
\* or does not verify is refused: its socket is not opened and no connection
\* set changes; and a socket that is opened is in the connection set of the
\* user of its token and in no other.
C22_VerifiedAtConnect ==
  [][\A c \in Conns, t \in Tokens, awaited \in BOOLEAN :
       WsConnect(c, t, awaited) =>
         /\ (t = "" \/ authenticateWebSocket(t) = None)
              => (ws'[c].readyState = "NONE" /\ clients' = clients)
         /\ ws'[c].readyState = "OPEN"
              => /\ authenticateWebSocket(t) \in DOMAIN clients'
                 /\ c \in clients'[authenticateWebSocket(t)]
                 /\ \A u \in DOMAIN clients' :
                      u # authenticateWebSocket(t) => c \notin clients'[u]]_vars

\* C23 (best-effort delivery, SpecPublish): when a publication meets, in the
\* owner's connection set, sockets that are not open or whose send throws,
\* these sockets are deleted from the set, the publishing operation returns
\* normally, every other socket of the set stays in it and is sent the event,
\* and the session has the status and progress the operation sets.
C23_BestEffort ==
  [][\A f \in PubFiles :
       LET throwing == last'.throwing
           Fan(u) ==
               LET set == IF u \in DOMAIN clients THEN clients[u] ELSE {}
                   good == {c \in set : ws[c].readyState = "OPEN"
                                        /\ c \notin throwing}
               IN /\ last'.result = "ok"
                  /\ Len(last'.events) = 1
                  /\ \A c \in set \ good :
                       c \notin clients'[u] /\ last'.sent[c] = <<>>
                  /\ \A c \in good :
                       /\ c \in clients'[u]
                       /\ last'.sent[c] # <<>>
                       /\ Delivered(last'.events[1]) \in inbox'[c]
       IN /\ \A u \in Users :
               (last'.op = "startUploadSession"
                /\ PubStartUploadSession(f, u, throwing)) =>
                 /\ Fan(u)
                 /\ uploadSessions'[f].userId = u
                 /\ uploadSessions'[f].status = "uploading"
                 /\ uploadSessions'[f].progress = Zero
          /\ f \in DOMAIN uploadSessions =>
               /\ (last'.op = "updateProgress"
                   /\ PubUpdateProgress(f, PubProgress, throwing)) =>
                    /\ Fan(uploadSessions[f].userId)
                    /\ uploadSessions'[f].status = uploadSessions[f].status
                    /\ uploadSessions'[f].progress = PubProgress
               /\ (last'.op = "completeUpload"
                   /\ PubCompleteUpload(f, throwing)) =>
                    /\ Fan(uploadSessions[f].userId)
                    /\ uploadSessions'[f].status = "completed"
                    /\ uploadSessions'[f].progress = One
               /\ (last'.op = "handleUploadError"
                   /\ PubHandleUploadError(f, TRUE, throwing)) =>
                    /\ Fan(uploadSessions[f].userId)
                    /\ uploadSessions'[f].status = "error"
                    /\ uploadSessions'[f].progress = uploadSessions[f].progress]_vars

\* C23 witness: a publication has met a socket of the owner whose send threw:
\* that socket, still open, is no longer in the owner's set, and another
\* socket of the owner was sent the event and is still in the set.
C23_Witness ==
  \E f \in PubFiles, c1 \in Conns, c2 \in Conns :
    /\ f \in DOMAIN uploadSessions
    /\ last.fileId = f
    /\ last.op = "updateProgress"
    /\ c1 \in last.throwing
    /\ ws[c1] = [user |-> uploadSessions[f].userId, readyState |-> "OPEN"]
    /\ ws[c2] = [user |-> uploadSessions[f].userId, readyState |-> "OPEN"]
    /\ uploadSessions[f].userId \in DOMAIN clients
    /\ c1 \notin clients[uploadSessions[f].userId]
    /\ c2 \in clients[uploadSessions[f].userId]
    /\ last.sent[c1] = <<>>
    /\ Len(last.sent[c2]) = 1
    /\ uploadSessions[f].progress = PubProgress

\* C24 (per-file event order, SpecOrder): a socket that is open and in the
\* owner's connection set when an operation publishes events for a fileId is
\* sent exactly those events, in the order in which the operation published
\* them; operations run one after the other, so this is the publish order.
C24_PublishOrder ==
  [][\A f \in PubFiles :
       (\/ \E u \in Users : RouteInit(u, f, OneChunkFile, None)
        \/ PubUpdateProgress(f, PubProgress, {})
        \/ PubCompleteUpload(f, {}))
       => (f \in DOMAIN uploadSessions' =>
             LET owner == uploadSessions'[f].userId
                 set == IF owner \in DOMAIN clients THEN clients[owner] ELSE {}
             IN /\ \A k \in DOMAIN last'.events : last'.events[k].fileId = f
                /\ \A c \in set :
                     ws[c].readyState = "OPEN" => last'.sent[c] = last'.events)]_vars

\* C24 witness: an init request has published upload_started and then
\* upload_progress, and an open socket of the owner was sent the two in
\* this order.
C24_Witness ==
  \E c \in Conns :
    /\ last.op = "init"
    /\ ws[c] = [user |-> last.caller, readyState |-> "OPEN"]
    /\ Len(last.sent[c]) = 2
    /\ last.sent[c][1].type = "upload_started"
    /\ last.sent[c][2].type = "upload_progress"
    /\ last.sent[c] = last.events

\* C25 (session retention, SpecBus): a session that is completed, or in
\* error with no retry left (final failure, cancellation), has a 30 s
\* clean-up timer pending, which will remove it; and a session is removed
\* only when it is in such a terminal state, so that the final snapshot stays
\* readable until the timer fires.
C25_SessionRetention ==
  [][\A f \in BusFiles :
       /\ (/\ f \in DOMAIN uploadSessions'
           /\ \/ uploadSessions'[f].status = "completed"
              \/ /\ uploadSessions'[f].status = "error"
                 /\ uploadSessions'[f].retryable = "false")
            => sessionTimers'[f] > 0
       /\ (f \in DOMAIN uploadSessions /\ f \notin DOMAIN uploadSessions')
            => \/ uploadSessions[f].status = "completed"
               \/ /\ uploadSessions[f].status = "error"
                  /\ uploadSessions[f].retryable = "false"]_vars

\* C26 (the session of init is the session the manager reads, SpecUpload):
\* after an accepted init, the session getSession returns for the fileId has
\* totalChunks = ceil(size / chunkSize), a receivedChunks set, a chunkHashes
\* map and the tempDir that initializeChunkedUpload computed and returned.
C26_SessionPersisted ==
  [][\A u \in Users, f \in UploadFiles, size \in FileSizeInputs :
       (RouteInit(u, f, size, None) /\ last'.result = "200") =>
         LET session == getSession([uploadSessions |-> uploadSessions'], f)
         IN /\ session.totalChunks = CeilDiv(size.n, chunkSize)
            /\ session.totalChunks = last'.ret.totalChunks
            /\ ~Undefined(session, "receivedChunks")
            /\ ~Undefined(session, "chunkHashes")
            /\ ~Undefined(session, "tempDir")
            /\ session.tempDir = last'.ret.tempDir]_vars

C28_AssemblyGuard ==
  [][\A u \in Users, f \in UploadFiles, t \in ToolResources :
       (/\ last'.op = "complete"
        /\ RouteComplete(u, f, t)
        /\ f \in DOMAIN uploadSessions
        /\ DOMAIN hist[f].accepted
             # 0..(uploadSessions[f].metadata.totalChunks - 1))
       => /\ last'.result # "200"
          /\ last'.error = ErrMissing
          /\ disk'.files = disk.files
          /\ disk'.chunks = disk.chunks
          /\ \A k \in DOMAIN last'.events :
               last'.events[k].type # "upload_completed"]_vars

C30_ResumeReconciles ==
  [][\A u \in Users, f \in UploadFiles :
       /\ (/\ last'.op = "resume"
           /\ RouteResume(u, f)
           /\ f \in DOMAIN uploadSessions
           /\ hist[f].tempDir # None)
          => /\ last'.result = "200"
             /\ ~Undefined(uploadSessions'[f], "receivedChunks")
             /\ uploadSessions'[f].receivedChunks =
                  (IF hist[f].tempDir \in DOMAIN disk'.chunks
                   THEN DOMAIN disk'.chunks[hist[f].tempDir] ELSE {})
       /\ \A i \in 0..(MaxFileChunks - 1), in \in UploadInputs :
            (/\ last.op = "resume" /\ last.fileId = f /\ last.result = "200"
             /\ i \in last.ret.missing
             /\ in[2] \in {NoHash, Md5(in[1])}
             /\ RouteUpload(u, f, i, in[1], in[2]))
            => /\ last'.result = "200"
               /\ ~last'.ret.already
               /\ i \in DOMAIN hist'[f].accepted
               /\ hist[f].tempDir \in DOMAIN disk'.chunks
               /\ i \in DOMAIN disk'.chunks[hist[f].tempDir]]_vars

\* C31 (one running stage, SpecPipeline): in every reachable pipeline state
\* at most one stage of a pipeline has status 'running'; startStage sets a
\* stage that is still running to completed before it sets the named stage
\* to running.
C31_OneRunningStage ==
  \A f \in DOMAIN pipelines :
    Cardinality({k \in DOMAIN pipelines[f].stages :
                   pipelines[f].stages[k].status = "running"}) <= 1

\* C32 (completed stages remain completed, SpecPipeline): once a stage of a
\* pipeline has status 'completed' with progress 1, no startStage,
\* updateStageProgress, completeStage or handleStageError call changes its
\* status or lowers its progress.
C32_CompletedStays ==
  [][\A f \in PipelineFiles :
       (/\ last'.op \in {"startStage", "updateStageProgress", "completeStage",
                         "handleStageError"}
        /\ f \in DOMAIN pipelines
        /\ f \in DOMAIN pipelines')
       => \A k \in DOMAIN pipelines[f].stages :
            (/\ pipelines[f].stages[k].status = "completed"
             /\ pipelines[f].stages[k].progress = One)
            => /\ pipelines'[f].stages[k].status = "completed"
               /\ NumLeq(pipelines[f].stages[k].progress,
                         pipelines'[f].stages[k].progress)]_vars

\* C33 (last stage completes the pipeline, SpecStages): when completeStage
\* marks the last stage of a pipeline completed, so that every stage is
\* completed, overallProgress becomes 1 and an upload_completed event is
\* published for the fileId.
C33_LastStageCompletes ==
  [][\A f \in PipelineFiles, n \in StageNames :
       (/\ last'.op = "completeStage"
        /\ PipeCompleteStage(f, n)
        /\ f \in DOMAIN pipelines
        /\ f \in DOMAIN uploadSessions
        /\ \A k \in DOMAIN pipelines'[f].stages :
             pipelines'[f].stages[k].status = "completed")
       => /\ pipelines'[f].overallProgress = One
          /\ \E k \in DOMAIN last'.events :
               /\ last'.events[k].type = "upload_completed"
               /\ last'.events[k].fileId = f]_vars

\* C34 (unrecoverable stage error, SpecPipeline): handleStageError with
\* recoverable = false on a stage of an existing pipeline publishes an
\* upload_error event for the fileId and leaves its session in the terminal
\* status 'error'; with recoverable = true the stage is left in 'error' and
\* the session is not made terminal.
C34_StageErrorTerminal ==
  [][\A f \in PipelineFiles, n \in StageInputs :
       (/\ last'.op = "handleStageError"
        /\ f \in DOMAIN pipelines
        /\ f \in DOMAIN uploadSessions
        /\ FindStage(pipelines[f], n) # 0)
       => /\ PipeHandleStageError(f, n, FALSE) =>
               /\ \E k \in DOMAIN last'.events :
                    /\ last'.events[k].type = "upload_error"
                    /\ last'.events[k].fileId = f
               /\ uploadSessions'[f].status = "error"
          /\ PipeHandleStageError(f, n, TRUE) =>
               /\ pipelines'[f].stages[FindStage(pipelines[f], n)].status
                    = "error"
               /\ uploadSessions'[f].status = uploadSessions[f].status]_vars

\* C35 (canonical stage list, SpecStageList): the stage list of a pipeline
\* built by POST /init or by initializePipeline holds the baseline stages
\* and the required ones and nothing else, each once, in the order upload,
\* validation, processing, ocr, stt, embedding, storage, cleanup, whatever
\* the order or repetition of the required stages supplied.
C35_CanonicalStageList ==
  [][\A f \in StageListFiles :
       \A rs \in StageListInputs
                   \cup {RequiredStages(t, a) : t \in StageListTools,
                                               a \in BOOLEAN} :
         (/\ last'.op \in {"init", "initializePipeline"}
          /\ last'.result \in {"200", "ok"}
          /\ \/ PipeInitializePipeline(f, "A", rs)
             \/ \E t \in StageListTools, a \in BOOLEAN :
                  /\ rs = RequiredStages(t, a)
                  /\ RouteInitTyped("A", f, OneChunkFile, t, a))
         => LET stages == pipelines'[f].stages
                Rank(name) == CHOOSE r \in DOMAIN StageOrder :
                                StageOrder[r] = name
            IN /\ {stages[k].name : k \in DOMAIN stages}
                    = BaseStages \cup {rs[k] : k \in DOMAIN rs}
               /\ \A i, j \in DOMAIN stages :
                    i < j => Rank(stages[i].name) < Rank(stages[j].name)]_vars

\* C36 (overall progress, SpecPipeline): after startStage,
\* updateStageProgress, completeStage and handleStageError the
\* overallProgress of the pipeline is the weighted share of its own stage
\* list that is done (1 for a completed stage, stage.progress for a running
\* one, 0 otherwise, over the sum of the weights of the list) and lies
\* between 0 and 1.
C36_OverallProgress ==
  [][\A f \in PipelineFiles :
       (/\ last'.op \in {"startStage", "updateStageProgress", "completeStage",
                         "handleStageError"}
        /\ f \in DOMAIN pipelines
        /\ f \in DOMAIN pipelines')
       => LET stages == pipelines'[f].stages
              total == SumWeights(stages, Len(stages), FALSE)
              done == SumWeights(stages, Len(stages), TRUE)
          IN /\ total.n > 0
             /\ pipelines'[f].overallProgress
                  = Rat(done.n * total.d, done.d * total.n)
             /\ NumLeq(Zero, pipelines'[f].overallProgress)
             /\ NumLeq(pipelines'[f].overallProgress, One)]_vars

\* C37 (final failure, SpecLimits): when handleError decides final failure
\* for a fileId with a session it returns action 'failure', schedules no
\* retry timer, publishes exactly one upload_error event, with retryable =
\* false, and leaves nothing of the session's state behind: no retry record,
\* no pending retry timer and no chunk directory.
C37_FinalFailure ==
  [][\A f \in LimitFiles :
       (/\ last'.op \in {"upload", "executeRetry"}
        /\ last'.fileId = f
        /\ last'.ret.action = "failure"
        /\ f \in DOMAIN uploadSessions)
       => LET errors == {k \in DOMAIN last'.events :
                           last'.events[k].type = "upload_error"}
          IN /\ \A c \in BOOLEAN : retryTimers'[f][c] <= retryTimers[f][c]
             /\ Cardinality(errors) = 1
             /\ \A k \in errors : /\ ~last'.events[k].retryable
                                  /\ last'.events[k].fileId = f
             /\ f \notin DOMAIN retryAttempts'
             /\ \A c \in BOOLEAN : retryTimers'[f][c] = 0
             /\ hist[f].tempDir \notin DOMAIN disk'.chunks]_vars

\* C38 (clean-up timers, SpecStages): the 30 s timer of completeUpload and
\* the 60 s timer of completePipeline remove only the session or pipeline
\* they were set for: a session or pipeline initialised for the same fileId
\* after the timer was set, and not completed itself, is still there after
\* the timer has fired.
C38_TimerRemovesOwn ==
  [][\A f \in PipelineFiles :
       /\ (/\ sessionTimers'[f] < sessionTimers[f]
           /\ f \in DOMAIN uploadSessions
           /\ ~hist[f].timed)
          => f \in DOMAIN uploadSessions'
       /\ (/\ pipelineTimers'[f] < pipelineTimers[f]
           /\ f \in DOMAIN pipelines
           /\ ~hist[f].pipeTimed)
          => f \in DOMAIN pipelines']_vars

\* C39 (the retry chain ends, SpecRecovery): every firing of a retry timer
\* of a fileId lowers maxRetries * (its pending retry timers) - (the attempts
\* of its retry record), which never falls below 1 - maxRetries, so that
\* without new errors from outside only finitely many timers are set; a retry
\* that fails is handed to handleError, which either counts one more attempt
\* below maxRetries and sets one timer, or returns the final failure and
\* sets none.
C39_RetryChainEnds ==
  [][\A f \in RecoveryFiles :
       (/\ last'.op = "executeRetry"
        /\ last'.fileId = f
        /\ \E c \in BOOLEAN : RetryTimerFire(f, c))
       => LET Attempts(ra) == IF f \in DOMAIN ra THEN ra[f].attempts ELSE 0
              Pending(rt) == rt[f][TRUE] + rt[f][FALSE]
              Measure(ra, rt) == maxRetries * Pending(rt) - Attempts(ra)
          IN /\ Measure(retryAttempts', retryTimers')
                  < Measure(retryAttempts, retryTimers)
             /\ Measure(retryAttempts', retryTimers') >= 1 - maxRetries
             /\ last'.ret.action \in {None, "retry", "failure"}
             /\ last'.ret.action = "retry" =>
                  /\ Pending(retryTimers') = Pending(retryTimers)
                  /\ Attempts(retryAttempts') = Attempts(retryAttempts) + 1
                  /\ Attempts(retryAttempts') < maxRetries
             /\ last'.ret.action # "retry" =>
                  Pending(retryTimers') = Pending(retryTimers) - 1
             /\ last'.ret.action = "failure" => f \notin DOMAIN retryAttempts'
      ]_vars

\* C39 witness: the last timer of a chain has fired, its retry has failed
\* for want of a session and handleError has given up at maxRetries; no
\* timer is pending.
C39_Witness ==
  \E f \in RecoveryFiles :
    /\ last.op = "executeRetry"
    /\ last.fileId = f
    /\ f \notin DOMAIN uploadSessions
    /\ last.ret.action = "failure"
    /\ last.ret.attempt = maxRetries
    /\ \A c \in BOOLEAN : retryTimers[f][c] = 0

\* C40 (upload_completed is final, SpecStages): upload_completed is the last
\* event of a session: the operation that publishes it publishes nothing
\* after it, and once it has been published for a session no startStage,
\* completeStage or completePipeline call publishes an upload_progress or a
\* second upload_completed event for that fileId.
C40_CompletedIsLast ==
  [][\A f \in PipelineFiles :
       (/\ last'.op \in {"startStage", "completeStage", "completePipeline"}
        /\ last'.fileId = f
        /\ \/ PipeCompletePipeline(f)
           \/ \E n \in StageNames : PipeStartStage(f, n) \/ PipeCompleteStage(f, n))
       => /\ \A k \in DOMAIN last'.events :
               last'.events[k].type = "upload_completed"
                 => k = Len(last'.events)
          /\ (/\ f \in DOMAIN uploadSessions
              /\ uploadSessions[f].status = "completed"
              /\ hist[f].timed)
             => \A k \in DOMAIN last'.events :
                  last'.events[k].fileId = f
                    => last'.events[k].type
                         \notin {"upload_progress", "upload_completed"}]_vars

====
